---- MODULE Spec2Model ----
(***************************************************************************)
(* Progress gating, task generation, quiz sessions and grading of the      *)
(* CodeMap backend (controllers/lessonController, tasksController,         *)
(* submissionController and the Mongoose schemas they use).                *)
(*                                                                         *)
(* Collections are sequences of documents in natural (insertion) order.   *)
(* A handler that runs inside one MongoDB transaction is one step; a      *)
(* handler that reads documents before it opens its transaction is split  *)
(* at that point, and saves back only the paths it modified.               *)
(***************************************************************************)
EXTENDS Integers, Sequences, FiniteSets, TLC

VARIABLES users, lessons, categories, pools, tasks, submissions, now, procs, resp

vars == <<users, lessons, categories, pools, tasks, submissions, now, procs, resp>>

(***************************************************************************)
(* Bounds of the model                                                     *)
(***************************************************************************)
MaxLessons == 5
MaxTime == 120
MaxDraws == 3

(***************************************************************************)
(* Program constants                                                       *)
(***************************************************************************)
DefaultQuizQuestionCount == 10
DefaultTimeLimit == 60
DefaultPoints == 1

NULL == -1
NotFound == -1

Procs == {"p1", "p2"}
UserIds == {"u1", "u2"}
NoLesson == 0
NoTask == 0

(***************************************************************************)
(* Generic array helpers (JavaScript arrays are 0-based)                   *)
(***************************************************************************)
At(seq, i) == seq[i + 1]

Range(seq) == {seq[i] : i \in 1..Len(seq)}

\* Array.prototype.findIndex: first 0-based index whose element satisfies P, else -1
FindIndex(seq, P(_)) ==
  IF \E i \in 1..Len(seq) : P(seq[i])
    THEN (CHOOSE i \in 1..Len(seq) : P(seq[i]) /\ \A j \in 1..(i - 1) : ~P(seq[j])) - 1
    ELSE NotFound

\* Array.prototype.filter
Filter(seq, P(_)) == SelectSeq(seq, P)

\* Array.prototype.map over one field
MapField(seq, F(_)) == [i \in 1..Len(seq) |-> F(seq[i])]

\* Model.findById / findOne by _id: the document, or the empty sequence when absent
FindById(coll, id) == Filter(coll, LAMBDA d : d.id = id)

Exists(coll, id) == \E i \in 1..Len(coll) : coll[i].id = id

Doc(coll, id) == coll[CHOOSE i \in 1..Len(coll) : coll[i].id = id]

\* findByIdAndUpdate: replace the document with the given _id
UpdateById(coll, id, F(_)) ==
  [i \in 1..Len(coll) |-> IF coll[i].id = id THEN F(coll[i]) ELSE coll[i]]

\* insertion sort by the order field, ascending and stable: .sort({ order: 1 })
RECURSIVE InsertByOrder(_, _)
InsertByOrder(sorted, d) ==
  IF sorted = <<>> THEN <<d>>
  ELSE IF Head(sorted).order <= d.order
    THEN <<Head(sorted)>> \o InsertByOrder(Tail(sorted), d)
    ELSE <<d>> \o sorted

\* a find without the sort: natural order
SortByOrderUnsorted(seq) == seq

RECURSIVE SortByOrder(_)
SortByOrder(seq) ==
  IF seq = <<>> THEN <<>>
  ELSE InsertByOrder(SortByOrder(SubSeq(seq, 1, Len(seq) - 1)), seq[Len(seq)])

RECURSIVE SumSeq(_)
SumSeq(seq) == IF seq = <<>> THEN 0 ELSE Head(seq) + SumSeq(Tail(seq))

\* ObjectId values and their string form (ObjectId.prototype.toString, String(oid))
Oid(s) == [oid |-> s]
ToStr(o) == o.oid

(***************************************************************************)
(* The catalog: one roadmap, two stages, three categories.  Stage s2 was   *)
(* inserted first and later given order 2 (updateStage accepts any order), *)
(* so natural order and the order field disagree.                          *)
(***************************************************************************)
Roadmaps == <<[id |-> "r1"]>>

Stages ==
  << [id |-> "s2", roadmap |-> "r1", order |-> 2],
     [id |-> "s1", roadmap |-> "r1", order |-> 1] >>

StageOfCategory == [c \in {"cA1", "cA2", "cB1"} |-> IF c = "cB1" THEN "s2" ELSE "s1"]

CategoryIds == DOMAIN StageOfCategory

\* a category document as createCategory leaves it, with the given quizQuestionCount
NewCategory(c, n) ==
  [id |-> c, stage |-> StageOfCategory[c], roadmap |-> "r1", lesson |-> <<>>,
   quizQuestionCount |-> n, questionpool |-> <<>>, task |-> {}]

Option(q, o) == [id |-> o, _id |-> Oid(q \o o)]

\* a question-pool question as the QuestionPool schema stores it
Question(q, type, correct, multi, pts) ==
  [_id |-> Oid(q), questionType |-> type,
   options |-> <<Option(q, "a"), Option(q, "b")>>,
   correctAnswers |-> correct, allowMultipleAnswers |-> multi, points |-> pts]

QuestionsA1 ==
  << Question("q1", "multiple_choice", <<"a">>, FALSE, 1),
     Question("q2", "text", <<>>, FALSE, 1),
     Question("q3", "multiple_choice", <<"a", "b">>, TRUE, 2),
     Question("q4", "multiple_choice", <<"b">>, FALSE, 0) >>

QuestionsA2 ==
  << Question("q5", "multiple_choice", <<"b">>, FALSE, 1) >>

QuestionsB1 ==
  << Question("q6", "multiple_choice", <<"a">>, FALSE, 1),
     Question("q7", "code", <<>>, FALSE, 1) >>

(***************************************************************************)
(* The store.  Handlers are operators from a store to a response and a     *)
(* store; the actions below apply them to the variables.                   *)
(***************************************************************************)
DB == [users |-> users, lessons |-> lessons, categories |-> categories,
       pools |-> pools, tasks |-> tasks, submissions |-> submissions]

\* session.commitTransaction(): the writes made with the session become the store
commitTransaction(before, staged) == staged

\* an abort that leaves the staged writes in place
abortTransactionKeepsWrites(before, staged) == staged

\* session.abortTransaction(): every write made with the session is discarded
abortTransaction(before, staged) == before

\* a $set that overwrites the array with the one id
AddToSetReplacing(set, x) == {x}

\* $addToSet on an array field holding ids
AddToSet(set, x) == set \cup {x}

(***************************************************************************)
(* Catalog administration                                                  *)
(***************************************************************************)
\* Category.findByIdAndUpdate(categoryId, { $addToSet: { lesson } })
LinkLesson(cats, categoryId, lessonId) ==
  UpdateById(cats, categoryId,
     LAMBDA c : [c EXCEPT !.lesson =
        IF lessonId \in Range(@) THEN @ ELSE Append(@, lessonId)])

\* createLesson: lecture_number is the category's lesson count plus one
createLesson(db, categoryId) ==
  IF ~Exists(db.categories, categoryId)
    THEN [status |-> 404, db |-> db]
    ELSE
      LET existingCategory == Doc(db.categories, categoryId)
          lessonCountInCategory ==
            Len(Filter(db.lessons, LAMBDA l : l.category = categoryId))
          savedLesson ==
            [id |-> Len(db.lessons) + 1, category |-> categoryId,
             stage |-> existingCategory.stage, roadmap |-> existingCategory.roadmap,
             lecture_number |-> lessonCountInCategory + 1, completedby |-> {}]
      IN [status |-> 201,
          db |-> [db EXCEPT
            !.lessons = Append(@, savedLesson),
            !.categories = LinkLesson(@, categoryId, savedLesson.id)]]

\* createQuestionPool: the pool is active by default and linked to its category
createQuestionPool(db, categoryId, questions) ==
  IF ~Exists(db.categories, categoryId)
    THEN [status |-> 404, db |-> db]
    ELSE
      LET savedQuestionPool ==
            [id |-> Len(db.pools) + 1, category |-> categoryId, isActive |-> TRUE,
             questions |-> questions, tasks |-> {}]
      IN [status |-> 201,
          db |-> [db EXCEPT
            !.pools = Append(@, savedQuestionPool),
            !.categories = UpdateById(@, categoryId,
               LAMBDA c : [c EXCEPT !.questionpool = Append(@, savedQuestionPool.id)])]]

(***************************************************************************)
(* Completion engine                                                       *)
(***************************************************************************)
\* Category.find(...).populate("lesson"): the lesson documents a category refers to
PopulateLesson(db, category) ==
  LET present == Filter(category.lesson, LAMBDA id : Exists(db.lessons, id))
  IN [i \in 1..Len(present) |-> Doc(db.lessons, present[i])]

\* a completion check that reports a category complete as soon as it exists
checkCategoryCompletionAlways(db, userId, categoryId) ==
  [success |-> TRUE, isCompleted |-> TRUE]

checkCategoryCompletion(db, userId, categoryId) ==
  IF ~Exists(db.categories, categoryId)
    THEN [success |-> FALSE, isCompleted |-> FALSE]
    ELSE
      LET category == Doc(db.categories, categoryId)
          lessonsInCategory == PopulateLesson(db, category)
          lessonIds == MapField(lessonsInCategory, LAMBDA l : l.id)
          completedLessons ==
            Filter(db.lessons,
                   LAMBDA l : l.id \in Range(lessonIds) /\ userId \in l.completedby)
      IN IF Len(lessonsInCategory) = 0
           THEN [success |-> FALSE, isCompleted |-> FALSE]
           ELSE [success |-> TRUE,
                 isCompleted |-> (Len(completedLessons) = Len(lessonIds))]

(***************************************************************************)
(* Task generator                                                          *)
(***************************************************************************)
\* a selection loop without the uniqueness test
RECURSIVE SelectQuestionsRepeating(_, _, _, _)
SelectQuestionsRepeating(allQuestions, selectedQuestions, rand, questionCount) ==
  IF ~(Len(selectedQuestions) < questionCount) \/ rand = <<>>
    THEN selectedQuestions
    ELSE SelectQuestionsRepeating(allQuestions,
                                  Append(selectedQuestions, At(allQuestions, Head(rand))),
                                  Tail(rand), questionCount)

\* the while loop of step 7: draw an index, keep the pick unless its _id was
\* already selected; rand is the stream of Math.random() draws
RECURSIVE SelectQuestions(_, _, _, _)
SelectQuestions(allQuestions, selectedQuestions, rand, questionCount) ==
  IF ~(Len(selectedQuestions) < questionCount) \/ rand = <<>>
    THEN selectedQuestions
    ELSE
      LET pick == At(allQuestions, Head(rand))
          found == \E i \in 1..Len(selectedQuestions) :
                      ToStr(selectedQuestions[i]._id) = ToStr(pick._id)
      IN SelectQuestions(allQuestions,
                         IF found THEN selectedQuestions
                                  ELSE Append(selectedQuestions, pick),
                         Tail(rand), questionCount)

\* the embedded copy of one pool question (the Tasks schema keeps _id,
\* questionType, options._id, correctAnswers and points; it has no
\* allowMultipleAnswers path)
SnapshotQuestion(q) ==
  [_id |-> q._id,
   questionType |-> q.questionType,
   options |-> MapField(q.options, LAMBDA opt : [_id |-> opt._id]),
   correctAnswers |->
     MapField(Filter(q.options, LAMBDA opt : opt.id \in Range(q.correctAnswers)),
              LAMBDA opt : opt._id),
   points |-> q.points]

\* step 8: sum + (q.points || 1)
TotalPoints(selectedQuestions) ==
  SumSeq(MapField(selectedQuestions,
                  LAMBDA q : IF q.points = 0 THEN DefaultPoints ELSE q.points))

\* flatten the multiple-choice questions of the given pools, pool by pool
RECURSIVE AggregateQuestions(_)
AggregateQuestions(questionPools) ==
  IF questionPools = <<>> THEN <<>>
  ELSE Filter(Head(questionPools).questions,
              LAMBDA q : q.questionType = "multiple_choice")
       \o AggregateQuestions(Tail(questionPools))

FaultPoints == {"none", "taskSave", "refUpdate"}

generateTaskFromQuestionPool(db, userId, categoryId, rand, fault) ==
  LET questionPools ==
        Filter(db.pools, LAMBDA p : p.category = categoryId /\ p.isActive)
  IN
  IF Len(questionPools) = 0
    THEN [success |-> FALSE, message |-> "NoActivePool", db |-> db]
  ELSE IF ~Exists(db.categories, categoryId)
    THEN [success |-> FALSE, message |-> "CategoryNotFound", db |-> db]
  ELSE
    LET category == Doc(db.categories, categoryId)
        questionCount == IF category.quizQuestionCount = 0
                           THEN DefaultQuizQuestionCount
                           ELSE category.quizQuestionCount
        allQuestions == AggregateQuestions(questionPools)
    IN
    IF Len(category.questionpool) = 0
      THEN [success |-> FALSE, message |-> "NoPoolOnCategory", db |-> db]
    ELSE IF Len(allQuestions) < questionCount
      THEN [success |-> FALSE, message |-> "InsufficientQuestions", db |-> db]
    ELSE
      LET questionpoolId == At(category.questionpool, 0)
          selectedQuestions == SelectQuestions(allQuestions, <<>>, rand, questionCount)
          savedTask ==
            [id |-> Len(db.tasks) + 1,
             status |-> "pending",
             questions |-> MapField(selectedQuestions, SnapshotQuestion),
             totalPoints |-> TotalPoints(selectedQuestions),
             category |-> categoryId,
             user |-> userId,
             questionpool |-> questionpoolId,
             timeLimit |-> DefaultTimeLimit,
             userSessions |-> <<>>]
          withTask == [db EXCEPT !.tasks = Append(@, savedTask)]
          withRefs ==
            [withTask EXCEPT
               !.users = UpdateById(@, userId,
                  LAMBDA u : [u EXCEPT !.task = AddToSet(@, savedTask.id)]),
               !.categories = UpdateById(@, categoryId,
                  LAMBDA c : [c EXCEPT !.task = AddToSet(@, savedTask.id)]),
               !.pools = UpdateById(@, questionpoolId,
                  LAMBDA p : [p EXCEPT !.tasks = AddToSet(@, savedTask.id)])]
      IN
      IF fault = "taskSave"
        THEN [success |-> FALSE, message |-> "StorageError", db |-> db]
      ELSE IF fault = "refUpdate"
        THEN [success |-> FALSE, message |-> "StorageError", db |-> withTask]
      ELSE IF Len(selectedQuestions) < questionCount
        THEN [success |-> FALSE, message |-> "StillDrawing", db |-> db]
      ELSE [success |-> TRUE, message |-> "OK", db |-> withRefs]

\* an enrolment test that lets every user through
EnrolledAlways(user, currentLesson) == TRUE

\* user.roadmap.includes(currentLesson.roadmap.toString())
Enrolled(user, currentLesson) == currentLesson.roadmap \in user.roadmap

\* an includes() that never finds the id
HasCompletedNever(user, lessonId) == FALSE

\* user.completedlesson.includes(id)
HasCompleted(user, lessonId) == lessonId \in user.completedlesson

\* every lesson the given (populated) categories refer to, in order
RECURSIVE LessonsOfCategories(_, _)
LessonsOfCategories(db, cats) ==
  IF cats = <<>> THEN <<>>
  ELSE PopulateLesson(db, Head(cats)) \o LessonsOfCategories(db, Tail(cats))

\* a check 1 that looks at no stage
PrevStageLessonsNone(db, currentLesson) == <<>>

\* check 1: lessons of the stages sorted before the lesson's stage
PrevStageLessons(db, currentLesson) ==
  LET allStagesInRoadmap ==
        SortByOrder(Filter(Stages, LAMBDA s : s.roadmap = currentLesson.roadmap))
      currentStageIndex ==
        FindIndex(allStagesInRoadmap, LAMBDA s : s.id = currentLesson.stage)
      prevStages == {At(allStagesInRoadmap, i).id : i \in 0..(currentStageIndex - 1)}
  IN LessonsOfCategories(db, Filter(db.categories, LAMBDA c : c.stage \in prevStages))

\* a check 2 that looks at no category
PrevCategoryLessonsNone(db, currentLesson) == <<>>

\* check 2: lessons of the categories found before the lesson's category in its stage
PrevCategoryLessons(db, currentLesson) ==
  LET allCategoriesInCurrentStage ==
        Filter(db.categories, LAMBDA c : c.stage = currentLesson.stage)
      currentCategoryIndex ==
        FindIndex(allCategoriesInCurrentStage, LAMBDA c : c.id = currentLesson.category)
  IN LessonsOfCategories(db,
       SubSeq(allCategoriesInCurrentStage, 1,
              IF currentCategoryIndex < 0 THEN 0 ELSE currentCategoryIndex))

\* a check 3 that asks for the lesson itself
PrevLessonItself(db, currentLesson) == <<currentLesson>>

\* check 3: the lesson found just before this one among the category's lessons
PrevLesson(db, currentLesson) ==
  LET allLessonsInCurrentCategory ==
        Filter(db.lessons, LAMBDA l : l.category = currentLesson.category)
      currentLessonIndex ==
        FindIndex(allLessonsInCurrentCategory, LAMBDA l : l.id = currentLesson.id)
  IN IF currentLessonIndex > 0
       THEN <<At(allLessonsInCurrentCategory, currentLessonIndex - 1)>>
       ELSE <<>>

\* a prerequisite test that finds nothing missing
IncompleteNever(user, lessonDocs) == FALSE

Incomplete(user, lessonDocs) ==
  \E i \in 1..Len(lessonDocs) : ~HasCompleted(user, lessonDocs[i].id)

Reply(status, kind, generated, db) ==
  [status |-> status, kind |-> kind, taskGenerated |-> generated, db |-> db]

markLessonAsCompleted(db, userId, lessonId, rand, fault) ==
  IF ~Exists(db.lessons, lessonId) THEN Reply(404, "LessonNotFound", FALSE, db)
  ELSE IF ~Exists(db.users, userId) THEN Reply(404, "UserNotFound", FALSE, db)
  ELSE
    LET currentLesson == Doc(db.lessons, lessonId)
        user == Doc(db.users, userId)
    IN
    IF ~Enrolled(user, currentLesson)
      THEN Reply(403, "NotEnrolled", FALSE, db)
    ELSE IF HasCompleted(user, lessonId)
      THEN Reply(400, "AlreadyCompleted", FALSE, db)
    ELSE IF ~Exists(db.categories, currentLesson.category)
            \/ ~Exists(Stages, currentLesson.stage)
            \/ ~Exists(Roadmaps, currentLesson.roadmap)
      THEN Reply(500, "NoHierarchy", FALSE, db)
    ELSE IF Incomplete(user, PrevStageLessons(db, currentLesson))
      THEN Reply(403, "PrevStage", FALSE, db)
    ELSE IF Incomplete(user, PrevCategoryLessons(db, currentLesson))
      THEN Reply(403, "PrevCategory", FALSE, db)
    ELSE IF Incomplete(user, PrevLesson(db, currentLesson))
      THEN Reply(403, "PrevLesson", FALSE, db)
    ELSE
      LET staged ==
            [db EXCEPT
               !.users = UpdateById(@, userId,
                  LAMBDA u : [u EXCEPT !.completedlesson = AddToSet(@, lessonId)]),
               !.lessons = UpdateById(@, lessonId,
                  LAMBDA l : [l EXCEPT !.completedby = AddToSet(@, userId)])]
          checkResult == checkCategoryCompletion(staged, userId, currentLesson.category)
      IN
      IF checkResult.success /\ checkResult.isCompleted
        THEN
          LET genResult == generateTaskFromQuestionPool(
                             staged, userId, currentLesson.category, rand, fault)
          IN IF genResult.success
               THEN Reply(200, "OK", TRUE, commitTransaction(db, genResult.db))
               ELSE Reply(500, genResult.message, FALSE,
                          abortTransaction(db, genResult.db))
      ELSE IF ~checkResult.success
        THEN Reply(500, "CheckFailed", FALSE, abortTransaction(db, staged))
      ELSE Reply(200, "OK", FALSE, commitTransaction(db, staged))

(***************************************************************************)
(* Quiz session manager                                                    *)
(***************************************************************************)
\* the unique partial index { task, user, isLocked } on unlocked submissions:
\* inserting doc raises a duplicate-key error when an unlocked submission of the
\* same task and user is already stored
DuplicateKey(coll, doc) ==
  /\ ~doc.isLocked
  /\ \E i \in 1..Len(coll) :
       coll[i].task = doc.task /\ coll[i].user = doc.user /\ ~coll[i].isLocked

\* new Submission({...}) with the schema defaults
NewSubmission(db, taskId, userId, task, time) ==
  [id |-> Len(db.submissions) + 1,
   task |-> taskId, user |-> userId,
   startedAt |-> time, completedAt |-> NULL, timeSpent |-> NULL,
   answers |-> <<>>,
   score |-> 0, correctAnswers |-> 0,
   totalQuestions |-> Len(task.questions),
   percentageScore |-> 0,
   isLocked |-> FALSE, status |-> "in-progress",
   gradedAt |-> NULL, currentQuestionIndex |-> 0]

\* startQuiz up to the point where it opens its transaction
startQuizValidate(db, userId, taskId) ==
  IF ~Exists(db.tasks, taskId) THEN [status |-> 404, kind |-> "TaskNotFound"]
  ELSE IF Doc(db.tasks, taskId).user # userId
    THEN [status |-> 403, kind |-> "NotAssigned"]
  ELSE IF Doc(db.tasks, taskId).status # "pending"
    THEN [status |-> 400, kind |-> "NotPending"]
  ELSE [status |-> 0, kind |-> "Proceed"]

\* the transaction of startQuiz; task is the document read before it
startQuizTransaction(db, userId, taskId, task, time) ==
  LET userSessionIndex == FindIndex(task.userSessions, LAMBDA us : us.user = userId)
      savedTask(cur) ==
        [cur EXCEPT
           !.status = "in-progress",
           !.userSessions =
              IF userSessionIndex = NotFound
                THEN Append(@, [user |-> userId, startedAt |-> time,
                                completed |-> FALSE, score |-> NULL])
                ELSE [@ EXCEPT ![userSessionIndex + 1].startedAt = time]]
      submission == NewSubmission(db, taskId, userId, task, time)
      staged == [db EXCEPT !.tasks = UpdateById(@, taskId, savedTask),
                           !.submissions = Append(@, submission)]
  IN IF DuplicateKey(db.submissions, submission)
       THEN [status |-> 500, kind |-> "DuplicateKey",
             db |-> abortTransaction(db, staged)]
       ELSE [status |-> 200, kind |-> "OK", db |-> commitTransaction(db, staged)]

\* a deadline test that already fires at the limit
LimitPassedAtLimit(timeElapsedMinutes, timeLimit) == timeElapsedMinutes >= timeLimit

\* timeElapsedMinutes > task.timeLimit in checkQuizTimeLimit
LimitPassed(timeElapsedMinutes, timeLimit) == timeElapsedMinutes > timeLimit

\* checkQuizTimeLimit: read-only
checkQuizTimeLimit(db, userId, taskId, time) ==
  IF ~Exists(db.tasks, taskId)
    THEN [status |-> 404, shouldAutoSubmit |-> FALSE, timeRemaining |-> NULL]
  ELSE
    LET task == Doc(db.tasks, taskId)
        found == Filter(task.userSessions, LAMBDA us : us.user = userId)
    IN IF task.status # "in-progress" \/ found = <<>>
            \/ Head(found).startedAt = NULL \/ Head(found).completed
         THEN [status |-> 200, shouldAutoSubmit |-> FALSE, timeRemaining |-> NULL]
         ELSE
           LET timeElapsedMinutes == time - Head(found).startedAt
           IN IF LimitPassed(timeElapsedMinutes, task.timeLimit)
                THEN [status |-> 200, shouldAutoSubmit |-> TRUE, timeRemaining |-> 0]
                ELSE [status |-> 200, shouldAutoSubmit |-> FALSE,
                      timeRemaining |-> task.timeLimit - timeElapsedMinutes]

(***************************************************************************)
(* Grading engine                                                          *)
(***************************************************************************)
\* the answers.forEach merge: update the entry of the same questionId or push
RECURSIVE MergeAnswers(_, _)
MergeAnswers(stored, answers) ==
  IF answers = <<>> THEN stored
  ELSE
    LET answer == Head(answers)
        existingIndex ==
          FindIndex(stored, LAMBDA a : a.questionId = answer.questionId)
    IN MergeAnswers(
         IF existingIndex # NotFound
           THEN [stored EXCEPT ![existingIndex + 1].selectedOptions =
                                   answer.selectedOptionIds]
           ELSE Append(stored, [questionId |-> answer.questionId,
                                selectedOptions |-> answer.selectedOptionIds]),
         Tail(answers))

\* question.allowMultipleAnswers as JavaScript reads it: undefined (falsy) on a
\* document whose schema has no such path
AllowsMultiple(question) ==
  "allowMultipleAnswers" \in DOMAIN question /\ question.allowMultipleAnswers

\* a scoring step that looks the correct options up in the live pools
IsCorrectLivePool(question, storedAnswers) ==
  LET found == Filter(storedAnswers,
                      LAMBDA a : a.questionId = ToStr(question._id))
      live == Filter(AggregateQuestions(pools), LAMBDA q : q._id = question._id)
  IN /\ found # <<>> /\ live # <<>>
     /\ Len(Head(found).selectedOptions) = 1
     /\ \E i \in 1..Len(Head(live).options) :
          /\ ToStr(Head(live).options[i]._id) = Head(found).selectedOptions[1]
          /\ Head(live).options[i].id \in Range(Head(live).correctAnswers)

\* the body of the scoring loop for one question
IsCorrect(question, storedAnswers) ==
  LET found == Filter(storedAnswers,
                      LAMBDA a : a.questionId = ToStr(question._id))
  IN IF found = <<>> THEN FALSE
     ELSE
       LET correctAnswers == MapField(question.correctAnswers, ToStr)
           userAnswers == Head(found).selectedOptions
       IN IF ~AllowsMultiple(question)
            THEN Len(userAnswers) = 1 /\ userAnswers[1] \in Range(correctAnswers)
            ELSE /\ \A i \in 1..Len(correctAnswers) :
                       correctAnswers[i] \in Range(userAnswers)
                 /\ \A i \in 1..Len(userAnswers) :
                       userAnswers[i] \in Range(correctAnswers)

CorrectCount(questions, storedAnswers) ==
  Len(Filter(questions, LAMBDA q : IsCorrect(q, storedAnswers)))

\* a percentage that is cut off instead of rounded
PercentageScoreFloor(correctCount, totalQuestions) ==
  IF totalQuestions > 0 THEN (100 * correctCount) \div totalQuestions ELSE 0

\* Math.round((correctCount / totalQuestions) * 100), 0 for an empty task
PercentageScore(correctCount, totalQuestions) ==
  IF totalQuestions > 0
    THEN (200 * correctCount + totalQuestions) \div (2 * totalQuestions)
    ELSE 0

\* a time-limit test that already fires at the limit
TimeExceededAtLimit(startedAt, time, timeLimit) == (time - startedAt) >= timeLimit

\* the time-limit test of submitQuiz, on minutes since submission.startedAt
TimeExceeded(startedAt, time, timeLimit) == (time - startedAt) > timeLimit

\* document.save() of a document read earlier: only the paths whose value the
\* handler changed are written, onto the document as it is stored now; answers
\* pushed onto the array are appended to the stored array
SaveModified(cur, read, local) ==
  [f \in DOMAIN cur |->
     IF f = "answers"
       THEN IF local.answers = read.answers THEN cur.answers
            ELSE cur.answers \o SubSeq(local.answers, Len(read.answers) + 1,
                                        Len(local.answers))
     ELSE IF local[f] # read[f] THEN local[f] ELSE cur[f]]

\* submission.save({ session }): insert a new document or update the stored one
SaveSubmission(db, isNew, read, local) ==
  IF isNew
    THEN [db EXCEPT !.submissions = Append(@, local)]
    ELSE [db EXCEPT !.submissions =
            UpdateById(@, local.id, LAMBDA cur : SaveModified(cur, read, local))]

\* a task save that sets the status and leaves the session entries alone
SaveTaskCompletedStatusOnly(db, task, userId, withScore, correctCount) ==
  [db EXCEPT !.tasks =
     UpdateById(@, task.id, LAMBDA cur : [cur EXCEPT !.status = "completed"])]

\* task.status = "completed", the caller's session entry marked, task.save()
SaveTaskCompleted(db, task, userId, withScore, correctCount) ==
  LET userSessionIndex == FindIndex(task.userSessions, LAMBDA us : us.user = userId)
      finished(cur) ==
        [cur EXCEPT
           !.status = IF task.status # "completed" THEN "completed" ELSE @,
           !.userSessions =
              IF userSessionIndex = NotFound THEN @
              ELSE [@ EXCEPT
                      ![userSessionIndex + 1].completed = TRUE,
                      ![userSessionIndex + 1].score =
                         IF withScore THEN correctCount ELSE @]]
  IN [db EXCEPT !.tasks = UpdateById(@, task.id, finished)]

\* submitQuiz up to Task.findById and the assignment check
submitQuizValidate(db, userId, taskId) ==
  IF ~Exists(db.tasks, taskId) THEN [status |-> 404, kind |-> "TaskNotFound"]
  ELSE IF Doc(db.tasks, taskId).user # userId
    THEN [status |-> 403, kind |-> "NotAssigned"]
  ELSE [status |-> 0, kind |-> "Proceed"]

\* Submission.findOne({ task, user }): any one matching document, or none
FindSubmissions(db, userId, taskId) ==
  LET matching == Filter(db.submissions,
                         LAMBDA sub : sub.task = taskId /\ sub.user = userId)
  IN IF matching = <<>> THEN {<<>>} ELSE {<<matching[i]>> : i \in 1..Len(matching)}

\* a handler without the isLocked test
submitQuizLockedNever(found) == FALSE

\* the isLocked test on the submission that findOne returned: the handler
\* aborts its still empty transaction and answers 400
submitQuizLocked(found) ==
  found # <<>> /\ Head(found).isLocked

\* the transaction of submitQuiz past the isLocked test; task and found were
\* read before it
submitQuizTransaction(db, userId, taskId, task, found, answers, time) ==
  LET isNew == (found = <<>>)
      submission == IF isNew THEN NewSubmission(db, taskId, userId, task, time)
                             ELSE Head(found)
  IN
  IF TimeExceeded(submission.startedAt, time, task.timeLimit)
    THEN
      LET expired == [submission EXCEPT
                        !.status = "expired", !.isLocked = TRUE,
                        !.completedAt = time,
                        !.timeSpent = task.timeLimit * 60]
          staged == SaveTaskCompleted(
                      SaveSubmission(db, isNew, submission, expired),
                      task, userId, FALSE, 0)
      IN [status |-> 400, kind |-> "TimeLimitExceeded",
          db |-> commitTransaction(db, staged)]
  ELSE
    LET merged == MergeAnswers(submission.answers, answers)
        totalQuestions == Len(task.questions)
        correctCount == CorrectCount(task.questions, merged)
        graded == [submission EXCEPT
                     !.answers = merged,
                     !.status = "graded", !.isLocked = TRUE,
                     !.completedAt = time,
                     !.score = correctCount,
                     !.correctAnswers = correctCount,
                     !.totalQuestions = totalQuestions,
                     !.percentageScore = PercentageScore(correctCount, totalQuestions),
                     !.gradedAt = time,
                     !.timeSpent = (time - submission.startedAt) * 60]
        staged == SaveTaskCompleted(
                    SaveSubmission(db, isNew, submission, graded),
                    task, userId, TRUE, correctCount)
    IN [status |-> 200, kind |-> "Graded", db |-> commitTransaction(db, staged)]

(***************************************************************************)
(* Initial store: built with the creation handlers.  User u1 is enrolled   *)
(* in the roadmap, u2 is not.  The last category either has no pool, or a  *)
(* pool with fewer questions than the default count, or enough questions.  *)
(***************************************************************************)
Setups == {"nopool", "few", "enough"}

InitLessonCategories == <<"cA1", "cA2", "cA1", "cB1">>

EmptyDB(setup) ==
  [users |-> << [id |-> "u1", roadmap |-> {"r1"}, completedlesson |-> {}, task |-> {}],
                [id |-> "u2", roadmap |-> {}, completedlesson |-> {}, task |-> {}] >>,
   lessons |-> <<>>,
   categories |-> << NewCategory("cA1", 2),
                     NewCategory("cB1", IF setup = "few" THEN DefaultQuizQuestionCount
                                                         ELSE 1),
                     NewCategory("cA2", 1) >>,
   pools |-> <<>>,
   tasks |-> <<>>,
   submissions |-> <<>>]

RECURSIVE WithLessons(_, _)
WithLessons(db, cats) ==
  IF cats = <<>> THEN db
  ELSE WithLessons(createLesson(db, Head(cats)).db, Tail(cats))

RECURSIVE WithPools(_, _)
WithPools(db, specs) ==
  IF specs = <<>> THEN db
  ELSE WithPools(createQuestionPool(db, Head(specs)[1], Head(specs)[2]).db, Tail(specs))

InitPools(setup) ==
  << <<"cA1", SubSeq(QuestionsA1, 1, 2)>>,
     <<"cA2", QuestionsA2>>,
     <<"cA1", SubSeq(QuestionsA1, 3, 4)>> >>
  \o (IF setup = "nopool" THEN <<>> ELSE << <<"cB1", QuestionsB1>> >>)

InitDB(setup) == WithPools(WithLessons(EmptyDB(setup), InitLessonCategories), InitPools(setup))

Idle == [pc |-> "idle"]

Init ==
  \E setup \in Setups :
    /\ users = InitDB(setup).users
    /\ lessons = InitDB(setup).lessons
    /\ categories = InitDB(setup).categories
    /\ pools = InitDB(setup).pools
    /\ tasks = InitDB(setup).tasks
    /\ submissions = InitDB(setup).submissions
    /\ now = 0
    /\ procs = [p \in Procs |-> Idle]
    /\ resp = [op |-> "none", status |-> 0]

\* install the store a handler returned
Install(db) ==
  /\ users' = db.users
  /\ lessons' = db.lessons
  /\ categories' = db.categories
  /\ pools' = db.pools
  /\ tasks' = db.tasks
  /\ submissions' = db.submissions

LessonIds == {lessons[i].id : i \in 1..Len(lessons)}

\* the number of candidate questions of a lesson's category
CandidateCount(lessonId) ==
  Len(AggregateQuestions(
        Filter(pools, LAMBDA p : p.category = Doc(lessons, lessonId).category
                                 /\ p.isActive)))

\* whether completeLesson(userId, lessonId) gets as far as the selection loop
ReachesSelection(userId, lessonId) ==
  markLessonAsCompleted(DB, userId, lessonId, <<>>, "none").kind = "StillDrawing"

\* the streams of Math.random() draws the selection loop may see
RandStreams(userId, lessonId) ==
  IF ReachesSelection(userId, lessonId)
    THEN [1..MaxDraws -> 0..(CandidateCount(lessonId) - 1)]
    ELSE {<<>>}

\* where a storage error may strike inside task generation
Faults(userId, lessonId) ==
  IF ReachesSelection(userId, lessonId) THEN FaultPoints ELSE {"none"}

(***************************************************************************)
(* Actions                                                                 *)
(***************************************************************************)
\* POST /lessons/:id/complete
CompleteLesson(userId, lessonId) ==
  \E rand \in RandStreams(userId, lessonId), fault \in Faults(userId, lessonId) :
    LET r == markLessonAsCompleted(DB, userId, lessonId, rand, fault)
    IN /\ r.kind # "StillDrawing"
       /\ Install(r.db)
       /\ resp' = [op |-> "completeLesson", user |-> userId, arg |-> lessonId,
                   status |-> r.status, kind |-> r.kind,
                   taskGenerated |-> r.taskGenerated]
       /\ UNCHANGED <<now, procs>>

\* POST /lessons (admin)
CreateLesson(categoryId) ==
  /\ Len(lessons) < MaxLessons
  /\ LET r == createLesson(DB, categoryId)
     IN /\ Install(r.db)
        /\ resp' = [op |-> "createLesson", user |-> "admin", arg |-> categoryId,
                    status |-> r.status]
  /\ UNCHANGED <<now, procs>>

TaskIds == {tasks[i].id : i \in 1..Len(tasks)}

Respond(op, userId, arg, r) ==
  resp' = [op |-> op, user |-> userId, arg |-> arg,
           status |-> r.status, kind |-> r.kind]

\* POST /tasks/:taskId/start, up to the validation of the task read
StartQuizBegin(p, userId, taskId) ==
  /\ procs[p].pc = "idle"
  /\ LET v == startQuizValidate(DB, userId, taskId)
     IN IF v.kind = "Proceed"
          THEN /\ procs' = [procs EXCEPT ![p] =
                    [pc |-> "startTxn", user |-> userId, taskId |-> taskId,
                     task |-> Doc(tasks, taskId)]]
               /\ UNCHANGED resp
          ELSE /\ Respond("startQuiz", userId, taskId, v)
               /\ UNCHANGED procs
  /\ UNCHANGED <<users, lessons, categories, pools, tasks, submissions, now>>

\* the transaction of startQuiz
StartQuizCommit(p) ==
  /\ procs[p].pc = "startTxn"
  /\ LET r == startQuizTransaction(DB, procs[p].user, procs[p].taskId,
                                   procs[p].task, now)
     IN /\ Install(r.db)
        /\ Respond("startQuiz", procs[p].user, procs[p].taskId, r)
  /\ procs' = [procs EXCEPT ![p] = Idle]
  /\ UNCHANGED now

\* GET /tasks/:taskId/time-check
CheckTimeLimit(userId, taskId) ==
  /\ LET r == checkQuizTimeLimit(DB, userId, taskId, now)
     IN resp' = [op |-> "checkTimeLimit", user |-> userId, arg |-> taskId,
                 status |-> r.status,
                 kind |-> IF r.shouldAutoSubmit THEN "AutoSubmit"
                          ELSE IF r.timeRemaining = NULL THEN "NotApplicable"
                          ELSE "InTime"]
  /\ UNCHANGED <<users, lessons, categories, pools, tasks, submissions, now, procs>>

\* POST /submissions/:taskId/submit-quiz, up to the validation of the task read
SubmitQuizBegin(p, userId, taskId) ==
  /\ procs[p].pc = "idle"
  /\ LET v == submitQuizValidate(DB, userId, taskId)
     IN IF v.kind = "Proceed"
          THEN /\ procs' = [procs EXCEPT ![p] =
                    [pc |-> "submitFind", user |-> userId, taskId |-> taskId,
                     task |-> Doc(tasks, taskId)]]
               /\ UNCHANGED resp
          ELSE /\ Respond("submitQuiz", userId, taskId, v)
               /\ UNCHANGED procs
  /\ UNCHANGED <<users, lessons, categories, pools, tasks, submissions, now>>

\* Submission.findOne of submitQuiz and the isLocked test on its result (the
\* test reads nothing else, so its outcome is fixed here)
SubmitQuizFind(p) ==
  /\ procs[p].pc = "submitFind"
  /\ \E found \in FindSubmissions(DB, procs[p].user, procs[p].taskId) :
       IF submitQuizLocked(found)
         THEN /\ Respond("submitQuiz", procs[p].user, procs[p].taskId,
                         [status |-> 400, kind |-> "AlreadyFinalized"])
              /\ procs' = [procs EXCEPT ![p] = Idle]
         ELSE /\ procs' = [procs EXCEPT ![p] =
                   [pc |-> "submitTxn", user |-> procs[p].user,
                    taskId |-> procs[p].taskId,
                    task |-> procs[p].task, found |-> found]]
              /\ UNCHANGED resp
  /\ UNCHANGED <<users, lessons, categories, pools, tasks, submissions, now>>

\* request bodies tried against a task: nothing, exactly the correct options of
\* every question, the first option of every question
AnswerOf(question, selected) ==
  [questionId |-> ToStr(question._id), selectedOptionIds |-> selected]

ExactAnswers(task) ==
  MapField(task.questions,
           LAMBDA q : AnswerOf(q, MapField(q.correctAnswers, ToStr)))

AnswerInputs(task) ==
  { <<>>,
    ExactAnswers(task),
    MapField(task.questions,
             LAMBDA q : AnswerOf(q, <<ToStr(q.options[1]._id)>>)) }

\* the transaction of submitQuiz
SubmitQuizCommit(p) ==
  /\ procs[p].pc = "submitTxn"
  /\ \E answers \in AnswerInputs(procs[p].task) :
       LET r == submitQuizTransaction(DB, procs[p].user, procs[p].taskId,
                                      procs[p].task, procs[p].found, answers, now)
       IN /\ Install(r.db)
          /\ Respond("submitQuiz", procs[p].user, procs[p].taskId, r)
  /\ procs' = [procs EXCEPT ![p] = Idle]
  /\ UNCHANGED now

\* time passes
TickStep == DefaultTimeLimit

\* only differences of instants are ever read, so the clock is advanced only
\* while an attempt is open or a request is in flight
AttemptOpen ==
  \/ \E i \in 1..Len(submissions) : ~submissions[i].isLocked
  \/ \E p \in Procs : procs[p].pc # "idle"

Tick ==
  /\ AttemptOpen
  /\ now + TickStep <= MaxTime
  /\ now' = now + TickStep
  /\ UNCHANGED <<users, lessons, categories, pools, tasks, submissions, procs, resp>>

Next ==
  \/ \E u \in UserIds, l \in LessonIds \cup {NoLesson} : CompleteLesson(u, l)
  \/ \E c \in CategoryIds : CreateLesson(c)

Spec == Init /\ [][Next]_vars

(***************************************************************************)
(* Properties of the completion engine and the task generator (Spec)       *)
(***************************************************************************)
Store == <<users, lessons, categories, pools, tasks, submissions>>

UserDoc(u) == Doc(users, u)
LessonDoc(l) == Doc(lessons, l)

StageOrder(s) == Doc(Stages, s).order

\* position of a category in creation order
CategoryPosition(c) == CHOOSE i \in 1..Len(categories) : categories[i].id = c

\* the lessons the gating order puts before lesson l
EarlierStageLessons(l) ==
  {m \in LessonIds : /\ LessonDoc(m).roadmap = LessonDoc(l).roadmap
                     /\ StageOrder(LessonDoc(m).stage) < StageOrder(LessonDoc(l).stage)}

EarlierCategoryLessons(l) ==
  {m \in LessonIds : /\ LessonDoc(m).stage = LessonDoc(l).stage
                     /\ CategoryPosition(LessonDoc(m).category)
                          < CategoryPosition(LessonDoc(l).category)}

PrecedingLessons(l) ==
  {m \in LessonIds : /\ LessonDoc(m).category = LessonDoc(l).category
                     /\ LessonDoc(m).lecture_number < LessonDoc(l).lecture_number
                     /\ \A k \in LessonIds :
                          (LessonDoc(k).category = LessonDoc(l).category
                           /\ LessonDoc(k).lecture_number < LessonDoc(l).lecture_number)
                          => LessonDoc(k).lecture_number <= LessonDoc(m).lecture_number}

Prerequisites(l) ==
  EarlierStageLessons(l) \cup EarlierCategoryLessons(l) \cup PrecedingLessons(l)

\* the step is a completeLesson(u, l) answered with 200
CompletedNow(u, l) ==
  /\ resp'.op = "completeLesson" /\ resp'.status = 200
  /\ resp'.user = u /\ resp'.arg = l

\* C1: completeLesson(U, L) succeeds only if U has already completed every lesson
\* of every stage of smaller order, every lesson of every earlier category of L's
\* stage, and the lesson just before L by lecture_number in L's category.
C1_GatedCompletion ==
  [][\A u \in UserIds, l \in LessonIds :
       (CompletedNow(u, l) \/ (l \notin UserDoc(u).completedlesson
                               /\ l \in Doc(users', u).completedlesson))
       => Prerequisites(l) \subseteq UserDoc(u).completedlesson]_vars

\* a second lesson of the second stage has been completed: all three kinds of
\* predecessor were required
C1_Witness ==
  /\ resp.op = "completeLesson" /\ resp.status = 200
  /\ LessonDoc(resp.arg).stage = "s2"
  /\ LessonDoc(resp.arg).lecture_number = 2
  /\ EarlierStageLessons(resp.arg) # {}

\* the step is a completeLesson call whose task generation failed
GenerationFailedNow ==
  /\ resp'.op = "completeLesson" /\ resp'.status = 500
  /\ resp'.kind \in {"NoActivePool", "InsufficientQuestions", "StorageError"}

\* C2: when completing the last lesson of a category triggers a task generation
\* that fails, the whole operation is rolled back: the lesson is not recorded as
\* completed on either side and no task or task reference is left behind.
C2_GenerationFailureRollsBack ==
  [][GenerationFailedNow =>
       /\ Store' = Store
       /\ resp'.arg \notin Doc(users', resp'.user).completedlesson
       /\ resp'.user \notin Doc(lessons', resp'.arg).completedby
       /\ Len(tasks') = Len(tasks)]_vars

\* task generation has just failed on a storage error
C2_Witness ==
  /\ resp.op = "completeLesson" /\ resp.status = 500
  /\ resp.kind = "StorageError"
  /\ resp.arg \notin UserDoc(resp.user).completedlesson

\* C8: a completeLesson(U, L) issued right after a successful completeLesson(U, L)
\* is rejected as already completed and leaves the store as the first call left it.
C8_SecondCompletionRejected ==
  (resp.op = "completeLesson" /\ resp.status = 200) =>
    \A rand \in {<<>>, <<0, 0, 0>>}, fault \in FaultPoints :
      LET second == markLessonAsCompleted(DB, resp.user, resp.arg, rand, fault)
      IN /\ second.status = 400
         /\ second.kind = "AlreadyCompleted"
         /\ second.db = DB

\* the second call has been answered
C8_Witness ==
  /\ resp.op = "completeLesson" /\ resp.status = 400
  /\ resp.kind = "AlreadyCompleted"
  /\ resp.arg \in UserDoc(resp.user).completedlesson

\* C9: a generated task holds exactly quizQuestionCount questions of its category,
\* no two of them the same pool question.
C9_DistinctQuestions ==
  \A i \in 1..Len(tasks) :
    LET qs == tasks[i].questions
    IN /\ Len(qs) = Doc(categories, tasks[i].category).quizQuestionCount
       /\ \A j, k \in 1..Len(qs) : j # k => ToStr(qs[j]._id) # ToStr(qs[k]._id)

\* a task of two questions drawn from three candidates has been generated
C9_Witness ==
  \E i \in 1..Len(tasks) :
    /\ Len(tasks[i].questions) = 2
    /\ Len(AggregateQuestions(
             Filter(pools, LAMBDA p : p.category = tasks[i].category))) = 3

\* whether u has completed every lesson that now belongs to category c
CategoryComplete(ls, us, u, c) ==
  \A i \in 1..Len(ls) : ls[i].category = c => ls[i].id \in Doc(us, u).completedlesson

TasksOf(ts, u, c) == Filter(ts, LAMBDA t : t.user = u /\ t.category = c)

\* C10 as stated, its last sentence: no task bound to (U, C) exists while U has
\* not completed all lessons of C.
C10_TaskOnlyWhileComplete ==
  \A u \in UserIds, c \in CategoryIds :
    TasksOf(tasks, u, c) # <<>> => CategoryComplete(lessons, users, u, c)

\* C10 amended: a successful completeLesson(U, L) creates one task for (U, L's
\* category) and reports taskGenerated exactly when, after adding L, U has
\* completed every lesson of that category, and otherwise creates none; a task is
\* created only in such a step (a lesson added later leaves the task in place).
C10_TaskAtCompletion ==
  [][/\ \A u \in UserIds, l \in LessonIds :
          CompletedNow(u, l) =>
            LET c == LessonDoc(l).category
            IN /\ resp'.taskGenerated = CategoryComplete(lessons', users', u, c)
               /\ resp'.taskGenerated =>
                    /\ Len(tasks') = Len(tasks) + 1
                    /\ tasks'[Len(tasks')].user = u
                    /\ tasks'[Len(tasks')].category = c
                    /\ SubSeq(tasks', 1, Len(tasks)) = tasks
               /\ ~resp'.taskGenerated => tasks' = tasks
     /\ tasks' # tasks => (/\ resp'.op = "completeLesson"
                           /\ resp'.status = 200
                           /\ resp'.taskGenerated)]_vars

\* a completion that finished its category and produced the task
C10_Witness ==
  /\ resp.op = "completeLesson" /\ resp.status = 200 /\ resp.taskGenerated
  /\ TasksOf(tasks, resp.user, LessonDoc(resp.arg).category) # <<>>
  /\ CategoryComplete(lessons, users, resp.user, LessonDoc(resp.arg).category)

\* C24: the totalPoints of every generated task is the sum of the points of the
\* questions in its snapshot, a question worth 0 points included.
C24_TotalPointsIsSum ==
  \A i \in 1..Len(tasks) :
    tasks[i].totalPoints
      = SumSeq(MapField(tasks[i].questions, LAMBDA q : q.points))

\* the number of lessons of category c among ls
LessonCount(ls, c) == Len(Filter(ls, LAMBDA l : l.category = c))

QuizInitDB(rand) ==
  markLessonAsCompleted(
    markLessonAsCompleted(InitDB("enough"), "u1", 1, <<>>, "none").db,
    "u1", 3, rand, "none").db

\* the draws that select q1 (one correct option) and q3 (two correct options)
QuizStreams == {<<0, 0, 1>>}

QuizInit ==
  \E rand \in QuizStreams :
    /\ Len(QuizInitDB(rand).tasks) = 1
    /\ users = QuizInitDB(rand).users
    /\ lessons = QuizInitDB(rand).lessons
    /\ categories = QuizInitDB(rand).categories
    /\ pools = QuizInitDB(rand).pools
    /\ tasks = QuizInitDB(rand).tasks
    /\ submissions = QuizInitDB(rand).submissions
    /\ now = 0
    /\ procs = [p \in Procs |-> Idle]
    /\ resp = [op |-> "none", status |-> 0]

QuizNext ==
  \/ \E p \in Procs, u \in UserIds, t \in TaskIds \cup {NoTask} : StartQuizBegin(p, u, t)
  \/ \E p \in Procs : StartQuizCommit(p)
  \/ \E p \in Procs, u \in UserIds, t \in TaskIds \cup {NoTask} : SubmitQuizBegin(p, u, t)
  \/ \E p \in Procs : SubmitQuizFind(p)
  \/ \E p \in Procs : SubmitQuizCommit(p)
  \/ Tick

SpecQuiz == QuizInit /\ [][QuizNext]_vars

(***************************************************************************)
(* Properties of the quiz session manager and the grading engine (SpecQuiz)*)
(***************************************************************************)
TaskDoc(t) == Doc(tasks, t)

\* the stored submissions of (t, u) that are not locked
Unlocked(t, u) ==
  {i \in 1..Len(submissions) :
     /\ submissions[i].task = t /\ submissions[i].user = u
     /\ ~submissions[i].isLocked}

SessionsOf(task, u) == Filter(task.userSessions, LAMBDA us : us.user = u)

\* C3: at most one unlocked submission per (task, user) in every reachable state,
\* and of the startQuiz calls that read the same pending task exactly one
\* succeeds (every successful startQuiz that read the task without a session of
\* the caller adds one session entry, so two entries are two successful calls).
C3_OneActiveOneStart ==
  \A t \in TaskIds, u \in UserIds :
    /\ Cardinality(Unlocked(t, u)) <= 1
    /\ Len(SessionsOf(TaskDoc(t), u)) <= 1

\* p's submitQuiz transaction is committed in this step
SubmitCommitNow(p) == procs[p].pc = "submitTxn" /\ procs'[p].pc = "idle"

\* C4: a locked submission stays locked; a submitQuiz call that finds it locked
\* is rejected and changes nothing, so a locked submission is changed only by a
\* call that had read it before it was locked.
C4_LockedIsFinal ==
  [][/\ \A i \in 1..Len(submissions) :
          submissions[i].isLocked =>
            /\ submissions'[i].isLocked
            /\ submissions'[i] # submissions[i] =>
                 \E p \in Procs :
                   /\ SubmitCommitNow(p)
                   /\ procs[p].found # <<>>
                   /\ Head(procs[p].found).id = submissions[i].id
                   /\ ~Head(procs[p].found).isLocked
     /\ \A p \in Procs :
          (/\ procs[p].pc = "submitFind" /\ procs'[p].pc # "submitFind"
           /\ \A found \in FindSubmissions(DB, procs[p].user, procs[p].taskId) :
                found # <<>> /\ Head(found).isLocked)
          => (/\ procs'[p].pc = "idle"
              /\ resp'.op = "submitQuiz" /\ resp'.status = 400
              /\ resp'.kind = "AlreadyFinalized"
              /\ Store' = Store)]_vars

\* a submitQuiz on a locked submission has been rejected
C4_Witness ==
  /\ resp.op = "submitQuiz" /\ resp.kind = "AlreadyFinalized"
  /\ \E i \in 1..Len(submissions) :
       /\ submissions[i].isLocked /\ submissions[i].task = resp.arg
       /\ submissions[i].answers # <<>>

\* C5: an in-time submitQuiz whose answers are exactly the correct options of
\* every snapshot question is graded 100 per cent, one without answers 0.
C5_ExactAnswersScoreFull ==
  \A i \in 1..Len(submissions) :
    submissions[i].status = "graded" =>
      /\ submissions[i].answers
           = MergeAnswers(<<>>, ExactAnswers(TaskDoc(submissions[i].task)))
         => submissions[i].percentageScore = 100
      /\ submissions[i].answers = <<>> => submissions[i].percentageScore = 0

\* minutes between the start of the attempt p works on and now
Elapsed(p) ==
  IF procs[p].found = <<>> THEN 0 ELSE now - Head(procs[p].found).startedAt

\* C6: submitQuiz takes the expired path exactly when the elapsed time is
\* strictly greater than the task's time limit; at elapsed = timeLimit the
\* submission is graded as in time.
C6_StrictTimeLimit ==
  [][\A p \in Procs :
       SubmitCommitNow(p) =>
         /\ (resp'.kind = "TimeLimitExceeded")
              = (Elapsed(p) > procs[p].task.timeLimit)
         /\ (resp'.kind = "Graded")
              = (Elapsed(p) <= procs[p].task.timeLimit)]_vars

\* an attempt submitted exactly at the limit has been graded
C6_Witness ==
  \E i \in 1..Len(submissions) :
    /\ submissions[i].status = "graded"
    /\ submissions[i].completedAt - submissions[i].startedAt
         = TaskDoc(submissions[i].task).timeLimit

\* C7: a submitQuiz after the time limit leaves the submission expired and
\* locked with timeSpent = timeLimit * 60 and the caller's session of the task
\* completed (the call read the task after the quiz was started); the answers
\* it carried are not stored and the score fields are not recomputed.
C7_ExpiredSubmission ==
  [][\A p \in Procs :
       (SubmitCommitNow(p) /\ resp'.kind = "TimeLimitExceeded") =>
         LET id == Head(procs[p].found).id
             before == Doc(submissions, id)
             after == Doc(submissions', id)
             task == procs[p].task
         IN /\ procs[p].found # <<>>
            /\ resp'.status = 400
            /\ after.status = "expired"
            /\ after.isLocked
            /\ after.timeSpent = task.timeLimit * 60
            /\ after.answers = before.answers
            /\ after.score = before.score
            /\ after.correctAnswers = before.correctAnswers
            /\ after.percentageScore = before.percentageScore
            /\ SessionsOf(task, procs[p].user) # <<>> =>
                 \E k \in 1..Len(Doc(tasks', task.id).userSessions) :
                   /\ Doc(tasks', task.id).userSessions[k].user = procs[p].user
                   /\ Doc(tasks', task.id).userSessions[k].completed]_vars

\* a late submitQuiz has been answered and the attempt is expired
C7_Witness ==
  /\ resp.op = "submitQuiz" /\ resp.kind = "TimeLimitExceeded"
  /\ \E i \in 1..Len(submissions) :
       /\ submissions[i].status = "expired"
       /\ submissions[i].task = resp.arg
       /\ submissions[i].answers = <<>>
       /\ SessionsOf(TaskDoc(resp.arg), resp.user) # <<>>
       /\ Head(SessionsOf(TaskDoc(resp.arg), resp.user)).completed

(***************************************************************************)
(* Further properties of the completion engine (Spec)                      *)
(***************************************************************************)
\* C11: a lesson is in a user's completed set only if the user is enrolled in
\* the lesson's roadmap; completeLesson by a user who is not enrolled is
\* answered 403 and changes nothing.
C11_EnrolledOnly ==
  /\ \A u \in UserIds : \A l \in UserDoc(u).completedlesson :
       LessonDoc(l).roadmap \in UserDoc(u).roadmap
  /\ \A u \in UserIds, l \in LessonIds :
       LessonDoc(l).roadmap \notin UserDoc(u).roadmap =>
         \A fault \in FaultPoints :
           LET r == markLessonAsCompleted(DB, u, l, <<0, 0, 0>>, fault)
           IN r.status = 403 /\ r.kind = "NotEnrolled" /\ r.db = DB

\* a user who is not enrolled has been turned away while an enrolled one has
\* completed lessons
C11_Witness ==
  /\ resp.op = "completeLesson" /\ resp.status = 403 /\ resp.kind = "NotEnrolled"
  /\ UserDoc(resp.user).completedlesson = {}
  /\ \E u \in UserIds : UserDoc(u).completedlesson # {}

(***************************************************************************)
(* checkLessonAvailability                                                 *)
(***************************************************************************)
\* Lesson.find({ category, lecture_number: { $lt: currentLectureNumber } })
PreviousLessonsInCategory(db, currentLesson) ==
  Filter(db.lessons, LAMBDA l : /\ l.category = currentLesson.category
                                /\ l.lecture_number < currentLesson.lecture_number)

\* the lessons of the categories that Category.find({ stage }).sort({ createdAt: 1 })
\* puts before the lesson's category
LessonsInPrevCategories(db, currentLesson) ==
  LET categoriesInStage ==
        Filter(db.categories, LAMBDA c : c.stage = currentLesson.stage)
      currentCategoryIndex ==
        FindIndex(categoriesInStage, LAMBDA c : c.id = currentLesson.category)
      before == SubSeq(categoriesInStage, 1, currentCategoryIndex)
  IN Filter(db.lessons,
            LAMBDA l : \E i \in 1..Len(before) : l.category = before[i].id)

\* the lessons of the stages that Stage.find({ roadmap }).sort({ createdAt: 1 })
\* puts before the lesson's stage
LessonsInPrevStages(db, currentLesson) ==
  LET stagesInRoadmap ==
        Filter(Stages, LAMBDA st : st.roadmap = currentLesson.roadmap)
      currentStageIndex ==
        FindIndex(stagesInRoadmap, LAMBDA st : st.id = currentLesson.stage)
      before == SubSeq(stagesInRoadmap, 1, currentStageIndex)
  IN Filter(db.lessons,
            LAMBDA l : \E i \in 1..Len(before) : l.stage = before[i].id)

Availability(status, isCompleted, isAvailable, reason) ==
  [status |-> status, isCompleted |-> isCompleted,
   isAvailable |-> isAvailable, reason |-> reason]

checkLessonAvailability(db, userId, lessonId) ==
  IF ~Exists(db.lessons, lessonId)
    THEN Availability(404, FALSE, FALSE, "LessonNotFound")
  ELSE IF ~Exists(db.users, userId)
    THEN Availability(404, FALSE, FALSE, "UserNotFound")
  ELSE
    LET currentLesson == Doc(db.lessons, lessonId)
        user == Doc(db.users, userId)
    IN
    IF HasCompleted(user, lessonId)
      THEN Availability(200, TRUE, TRUE, "none")
    ELSE IF Incomplete(user, PreviousLessonsInCategory(db, currentLesson))
      THEN Availability(200, FALSE, FALSE, "previous_lessons_incomplete")
    ELSE IF Incomplete(user, LessonsInPrevCategories(db, currentLesson))
      THEN Availability(200, FALSE, FALSE, "previous_category_incomplete")
    ELSE IF Incomplete(user, LessonsInPrevStages(db, currentLesson))
      THEN Availability(200, FALSE, FALSE, "previous_stage_incomplete")
    ELSE Availability(200, FALSE, TRUE, "none")

(***************************************************************************)
(* The quiz handlers run without interruption                              *)
(***************************************************************************)
startQuiz(db, userId, taskId, time) ==
  LET v == startQuizValidate(db, userId, taskId)
  IN IF v.kind # "Proceed"
       THEN [status |-> v.status, kind |-> v.kind, db |-> db]
       ELSE startQuizTransaction(db, userId, taskId, Doc(db.tasks, taskId), time)

submitQuiz(db, userId, taskId, found, answers, time) ==
  LET v == submitQuizValidate(db, userId, taskId)
  IN IF v.kind # "Proceed"
       THEN [status |-> v.status, kind |-> v.kind, db |-> db]
     ELSE IF submitQuizLocked(found)
       THEN [status |-> 400, kind |-> "AlreadyFinalized",
             db |-> abortTransaction(db, db)]
     ELSE submitQuizTransaction(db, userId, taskId, Doc(db.tasks, taskId),
                                found, answers, time)

\* GET /lessons/:id/availability
CheckLessonAvailability(userId, lessonId) ==
  /\ LET r == checkLessonAvailability(DB, userId, lessonId)
     IN resp' = [op |-> "checkLessonAvailability", user |-> userId,
                 arg |-> lessonId, status |-> r.status,
                 kind |-> IF r.isAvailable THEN "Available" ELSE r.reason]
  /\ UNCHANGED <<users, lessons, categories, pools, tasks, submissions, now, procs>>

\* POST /tasks/:taskId/start, served alone
StartQuiz(userId, taskId) ==
  /\ LET r == startQuiz(DB, userId, taskId, now)
     IN Install(r.db) /\ Respond("startQuiz", userId, taskId, r)
  /\ UNCHANGED <<now, procs>>

\* the request body tried in the sequential runs: the correct options
SeqAnswers(taskId) ==
  IF Exists(tasks, taskId) THEN {ExactAnswers(Doc(tasks, taskId))} ELSE {<<>>}

\* POST /submissions/:taskId/submit-quiz, served alone
SubmitQuiz(userId, taskId) ==
  /\ \E found \in FindSubmissions(DB, userId, taskId) :
       \E answers \in SeqAnswers(taskId) :
         LET r == submitQuiz(DB, userId, taskId, found, answers, now)
         IN Install(r.db) /\ Respond("submitQuiz", userId, taskId, r)
  /\ UNCHANGED <<now, procs>>

(***************************************************************************)
(* Sequential specification: every handler, one request at a time, on the  *)
(* catalog whose categories all have enough questions                      *)
(***************************************************************************)
SeqInit ==
  /\ users = InitDB("enough").users
  /\ lessons = InitDB("enough").lessons
  /\ categories = InitDB("enough").categories
  /\ pools = InitDB("enough").pools
  /\ tasks = InitDB("enough").tasks
  /\ submissions = InitDB("enough").submissions
  /\ now = 0
  /\ procs = [p \in Procs |-> Idle]
  /\ resp = [op |-> "none", status |-> 0]

SeqNext ==
  \/ \E u \in UserIds, l \in LessonIds \cup {NoLesson} : CompleteLesson(u, l)
  \/ \E u \in UserIds, l \in LessonIds \cup {NoLesson} : CheckLessonAvailability(u, l)
  \/ \E u \in UserIds, t \in TaskIds \cup {NoTask} : StartQuiz(u, t)
  \/ \E u \in UserIds, t \in TaskIds \cup {NoTask} : SubmitQuiz(u, t)

SpecSeq == SeqInit /\ [][SeqNext]_vars

(***************************************************************************)
(* Properties of the handlers served one at a time (SpecSeq)               *)
(***************************************************************************)
\* the situations in which completeLesson(u, l) has to be turned away
MustRejectCompletion(u, l) ==
  \/ l \notin LessonIds
  \/ LessonDoc(l).roadmap \notin UserDoc(u).roadmap
  \/ l \in UserDoc(u).completedlesson
  \/ ~(Prerequisites(l) \subseteq UserDoc(u).completedlesson)

MustRejectStart(u, t) ==
  \/ t \notin TaskIds
  \/ TaskDoc(t).user # u
  \/ TaskDoc(t).status # "pending"

MustRejectSubmit(u, t) ==
  \/ t \notin TaskIds
  \/ TaskDoc(t).user # u
  \/ \A found \in FindSubmissions(DB, u, t) : found # <<>> /\ Head(found).isLocked

ClientError == {400, 403, 404}

\* C12: a completeLesson, startQuiz or submitQuiz call that has to be rejected
\* (unknown lesson or task, caller not enrolled or not assigned, lesson already
\* completed, prerequisite missing, task not pending, submission locked) is
\* answered with a client error and leaves the store exactly as it was.
C12_RejectedCallsChangeNothing ==
  [][/\ (resp'.op = "completeLesson" /\ MustRejectCompletion(resp'.user, resp'.arg))
          => (resp'.status \in ClientError /\ Store' = Store)
     /\ (resp'.op = "startQuiz" /\ MustRejectStart(resp'.user, resp'.arg))
          => (resp'.status \in ClientError /\ Store' = Store)
     /\ (resp'.op = "submitQuiz" /\ MustRejectSubmit(resp'.user, resp'.arg))
          => (resp'.status \in ClientError /\ Store' = Store)]_vars

\* a submitQuiz on a locked submission has been rejected after lessons were
\* completed and a quiz taken
C12_Witness ==
  /\ resp.op = "submitQuiz" /\ resp.status = 400 /\ resp.kind = "AlreadyFinalized"
  /\ \E u \in UserIds : UserDoc(u).completedlesson # {}
  /\ \E i \in 1..Len(submissions) : submissions[i].isLocked

\* the three prerequisite rejections of completeLesson
PrerequisiteKinds == {"PrevStage", "PrevCategory", "PrevLesson"}

\* C13: for an enrolled user, a completed lesson is reported available, and a
\* lesson not yet completed is reported available exactly when completeLesson
\* would pass its stage, category and lesson checks.
C13_AvailabilityMatchesCompletion ==
  \A u \in UserIds, l \in LessonIds :
    LessonDoc(l).roadmap \in UserDoc(u).roadmap =>
      LET a == checkLessonAvailability(DB, u, l)
          c == markLessonAsCompleted(DB, u, l, <<0, 0, 0>>, "none")
      IN IF l \in UserDoc(u).completedlesson
           THEN a.isAvailable
           ELSE a.isAvailable = (c.kind \notin PrerequisiteKinds)

\* every lesson the gating order puts before l: the lessons of earlier stages,
\* of earlier categories of l's stage, and the earlier lessons of l's category
AllEarlierLessons(l) ==
  EarlierStageLessons(l) \cup EarlierCategoryLessons(l)
    \cup {m \in LessonIds : /\ LessonDoc(m).category = LessonDoc(l).category
                            /\ LessonDoc(m).lecture_number < LessonDoc(l).lecture_number}

\* C25: with a fixed catalog, each user's completed set is closed under the
\* gating order: with a lesson it holds every lesson that precedes it.
C25_CompletedSetClosed ==
  \A u \in UserIds :
    \A l \in UserDoc(u).completedlesson :
      /\ l \in LessonIds
      /\ AllEarlierLessons(l) \subseteq UserDoc(u).completedlesson

\* a user has completed lessons with predecessors of all three kinds
C25_Witness ==
  \E u \in UserIds :
    /\ \E l \in UserDoc(u).completedlesson : EarlierStageLessons(l) # {}
    /\ \E l \in UserDoc(u).completedlesson : EarlierCategoryLessons(l) # {}
    /\ \E l \in UserDoc(u).completedlesson : PrecedingLessons(l) # {}

(***************************************************************************)
(* Further properties of the quiz session manager (SpecQuiz)               *)
(***************************************************************************)
\* p's startQuiz transaction ends in this step
StartCommitNow(p) == procs[p].pc = "startTxn" /\ procs'[p].pc = "idle"

\* C14: startQuiz(U, T) succeeds only if T is assigned to U and pending; on
\* success the task is in progress with a session of U started now and not
\* completed, and one new unlocked in-progress submission for (T, U) exists with
\* no answers, currentQuestionIndex 0 and totalQuestions the size of the task;
\* a call that does not succeed writes nothing.
C14_StartQuizEffects ==
  [][\A p \in Procs :
       StartCommitNow(p) =>
         LET t == procs[p].taskId
             u == procs[p].user
             after == Doc(tasks', t)
             new == submissions'[Len(submissions')]
         IN IF resp'.status = 200
              THEN /\ TaskDoc(t).user = u
                   /\ TaskDoc(t).status = "pending"
                   /\ after.status = "in-progress"
                   /\ \E k \in 1..Len(after.userSessions) :
                        /\ after.userSessions[k].user = u
                        /\ after.userSessions[k].startedAt = now
                        /\ ~after.userSessions[k].completed
                   /\ Len(submissions') = Len(submissions) + 1
                   /\ SubSeq(submissions', 1, Len(submissions)) = submissions
                   /\ new.task = t /\ new.user = u
                   /\ new.status = "in-progress" /\ ~new.isLocked
                   /\ new.answers = <<>> /\ new.currentQuestionIndex = 0
                   /\ new.totalQuestions = Len(after.questions)
              ELSE Store' = Store]_vars

\* C15: the status of a task only moves from pending to in-progress and from
\* in-progress to completed.
C15_TaskStatusOrder ==
  [][\A i \in 1..Len(tasks) :
       \/ tasks'[i].status = tasks[i].status
       \/ tasks[i].status = "pending" /\ tasks'[i].status = "in-progress"
       \/ tasks[i].status = "in-progress" /\ tasks'[i].status = "completed"]_vars

LosesStartRace(p) ==
  /\ StartCommitNow(p)
  /\ DuplicateKey(submissions,
                  NewSubmission(DB, procs[p].taskId, procs[p].user, procs[p].task, now))

\* C21: a startQuiz that loses the race for the unlocked submission of its
\* (task, user) fails with the Conflict error kind, not with an internal error,
\* and leaves no second submission and no change to the task.
C21_StartRaceConflict ==
  [][\A p \in Procs :
       LosesStartRace(p) =>
         /\ resp'.op = "startQuiz"
         /\ resp'.kind = "Conflict"
         /\ resp'.status \in ClientError \cup {409}
         /\ Store' = Store]_vars

\* C27: of the submitQuiz calls that read a submission while it was unlocked at
\* most one finalizes it: once a call has committed the graded, locked
\* submission, no other call overwrites its answers, score or percentageScore.
C27_OneFinalizer ==
  [][\A i \in 1..Len(submissions) :
       (submissions[i].isLocked /\ submissions[i].status = "graded") =>
         /\ submissions'[i].answers = submissions[i].answers
         /\ submissions'[i].score = submissions[i].score
         /\ submissions'[i].percentageScore = submissions[i].percentageScore]_vars

\* C28: while a quiz started by startQuiz is in progress, checkTimeLimit reports
\* shouldAutoSubmit exactly when a submitQuiz call at the same instant would
\* take the expired path.
C28_ExpiryAgreement ==
  \A u \in UserIds, t \in TaskIds :
    (/\ TaskDoc(t).user = u
     /\ TaskDoc(t).status = "in-progress"
     /\ Unlocked(t, u) # {})
    => \A found \in FindSubmissions(DB, u, t) :
         checkQuizTimeLimit(DB, u, t, now).shouldAutoSubmit
           = (submitQuiz(DB, u, t, found, <<>>, now).kind = "TimeLimitExceeded")

(***************************************************************************)
(* Grading specification: one user takes the quiz of category cA1, whose   *)
(* task holds one, two or three of the pool questions in any order; the    *)
(* pools may be edited after the task was generated                        *)
(***************************************************************************)
\* updateQuestionPool with a questions array: the array replaces the stored one
updateQuestionPool(db, poolId, questions) ==
  IF ~Exists(db.pools, poolId)
    THEN [status |-> 404, kind |-> "PoolNotFound", db |-> db]
    ELSE [status |-> 200, kind |-> "OK",
          db |-> [db EXCEPT !.pools =
                    UpdateById(@, poolId, LAMBDA p : [p EXCEPT !.questions = questions])]]

\* an edit that turns every question around: the options that were wrong are
\* now the correct ones, and several answers are no longer allowed
EditedQuestion(q) ==
  [q EXCEPT !.correctAnswers =
              SelectSeq(MapField(q.options, LAMBDA o : o.id),
                        LAMBDA id : id \notin Range(q.correctAnswers)),
            !.allowMultipleAnswers = FALSE]

\* the store with category cA1 created with quizQuestionCount = n
GradeCatalog(n) ==
  WithPools(WithLessons([EmptyDB("enough") EXCEPT !.categories[1] = NewCategory("cA1", n)],
                        InitLessonCategories),
            InitPools("enough"))

GradeInitDB(n, rand) ==
  markLessonAsCompleted(
    markLessonAsCompleted(GradeCatalog(n), "u1", 1, <<>>, "none").db,
    "u1", 3, rand, "none").db

GradeCounts == 1..3

GradeInit ==
  \E n \in GradeCounts, rand \in [1..MaxDraws -> 0..2] :
    /\ Len(GradeInitDB(n, rand).tasks) = 1
    /\ users = GradeInitDB(n, rand).users
    /\ lessons = GradeInitDB(n, rand).lessons
    /\ categories = GradeInitDB(n, rand).categories
    /\ pools = GradeInitDB(n, rand).pools
    /\ tasks = GradeInitDB(n, rand).tasks
    /\ submissions = GradeInitDB(n, rand).submissions
    /\ now = 0
    /\ procs = [p \in Procs |-> Idle]
    /\ resp = [op |-> "none", status |-> 0]

\* what a request may select for one question: nothing, one option, both
Selections(question) ==
  LET a == ToStr(question.options[1]._id)
      b == ToStr(question.options[2]._id)
  IN {<<a>>, <<b>>, <<a, b>>}

\* the request bodies: every question left out or answered with a selection
RECURSIVE GradeAnswers(_)
GradeAnswers(questions) ==
  IF questions = <<>> THEN {<<>>}
  ELSE LET rest == GradeAnswers(Tail(questions))
       IN rest \cup {<<AnswerOf(Head(questions), sel)>> \o r :
                       sel \in Selections(Head(questions)), r \in rest}

\* the request bodies that make a difference: all of them when the call gets as
\* far as grading, one otherwise
GradeBodies(userId, taskId, found) ==
  IF submitQuiz(DB, userId, taskId, found, <<>>, now).kind = "Graded"
    THEN GradeAnswers(Doc(tasks, taskId).questions)
    ELSE {<<>>}

\* submitQuiz served alone, with any of the request bodies
GradeSubmit(userId, taskId) ==
  /\ \E found \in FindSubmissions(DB, userId, taskId) :
       \E answers \in GradeBodies(userId, taskId, found) :
         LET r == submitQuiz(DB, userId, taskId, found, answers, now)
         IN Install(r.db) /\ Respond("submitQuiz", userId, taskId, r)
  /\ UNCHANGED <<now, procs>>

\* PUT /question-pools/:id with the questions turned around
UpdateQuestionPool(poolId) ==
  /\ LET r == updateQuestionPool(DB, poolId,
                                 MapField(Doc(pools, poolId).questions, EditedQuestion))
     IN /\ Install(r.db)
        /\ resp' = [op |-> "updateQuestionPool", user |-> "admin", arg |-> poolId,
                    status |-> r.status, kind |-> r.kind]
  /\ UNCHANGED <<now, procs>>

\* the pools the task of cA1 was drawn from
GradePools == {pools[i].id : i \in {k \in 1..Len(pools) : pools[k].category = "cA1"}}

GradeNext ==
  \/ \E t \in TaskIds : StartQuiz("u1", t)
  \/ \E t \in TaskIds : GradeSubmit("u1", t)
  \/ \E t \in TaskIds : CheckTimeLimit("u1", t)
  \/ \E pl \in GradePools : UpdateQuestionPool(pl)
  \/ Tick

SpecGrade == GradeInit /\ [][GradeNext]_vars

(***************************************************************************)
(* Properties of grading and of the time check (SpecGrade)                 *)
(***************************************************************************)
\* the pool question a snapshot question was copied from, as it was generated
SourceQuestion(question) ==
  CHOOSE q \in Range(QuestionsA1) : q._id = question._id

\* the options a stored answer list selects for a question, none if left out
SelectedFor(question, storedAnswers) ==
  LET found == Filter(storedAnswers, LAMBDA a : a.questionId = ToStr(question._id))
  IN IF found = <<>> THEN {} ELSE Range(Head(found).selectedOptions)

Answered(question, storedAnswers) ==
  \E i \in 1..Len(storedAnswers) : storedAnswers[i].questionId = ToStr(question._id)

CorrectOptions(question) == {ToStr(o) : o \in Range(question.correctAnswers)}

Graded == {i \in 1..Len(submissions) : submissions[i].status = "graded"}

\* C16: a question that allows several answers in its pool is counted correct
\* exactly when the selected options are the correct options of the snapshot.
C16_MultiAnswerSetEquality ==
  \A i \in Graded :
    LET task == TaskDoc(submissions[i].task)
    IN /\ submissions[i].correctAnswers
            = CorrectCount(task.questions, submissions[i].answers)
       /\ \A k \in 1..Len(task.questions) :
            SourceQuestion(task.questions[k]).allowMultipleAnswers =>
              (IsCorrect(task.questions[k], submissions[i].answers)
                 = (/\ Answered(task.questions[k], submissions[i].answers)
                    /\ SelectedFor(task.questions[k], submissions[i].answers)
                         = CorrectOptions(task.questions[k])))

\* p is round-half-up of 100 * c / t
RoundedPercentage(p, c, t) ==
  /\ 2 * p * t <= 200 * c + t
  /\ 200 * c + t < 2 * p * t + 2 * t

\* the snapshot questions the scoring loop judges correct
JudgedCorrect(task, storedAnswers) ==
  {k \in 1..Len(task.questions) :
     /\ Answered(task.questions[k], storedAnswers)
     /\ IsCorrect(task.questions[k], storedAnswers)}

\* C17: after a graded submitQuiz totalQuestions is the size of the snapshot,
\* score = correctAnswers = the number of questions judged correct (a question
\* left out counts as incorrect), 0 <= correctAnswers <= totalQuestions, and
\* percentageScore is correctAnswers / totalQuestions * 100 rounded, 0 for an
\* empty task.
C17_ScoreNumbers ==
  /\ PercentageScore(0, 0) = 0
  /\ \A i \in Graded :
       LET task == TaskDoc(submissions[i].task)
           sub == submissions[i]
       IN /\ sub.totalQuestions = Len(task.questions)
          /\ sub.score = sub.correctAnswers
          /\ sub.correctAnswers = Cardinality(JudgedCorrect(task, sub.answers))
          /\ 0 <= sub.correctAnswers /\ sub.correctAnswers <= sub.totalQuestions
          /\ sub.totalQuestions > 0 =>
               RoundedPercentage(sub.percentageScore, sub.correctAnswers,
                                 sub.totalQuestions)

\* two of three questions right, one left out: 67 per cent
C17_Witness ==
  \E i \in Graded :
    /\ submissions[i].totalQuestions = 3
    /\ submissions[i].correctAnswers = 2
    /\ submissions[i].percentageScore = 67
    /\ Len(submissions[i].answers) = 2

\* the grade as the snapshot alone determines it: a question is right when one
\* option was selected and the snapshot lists it as correct
SnapshotGrade(task, storedAnswers) ==
  Cardinality({k \in 1..Len(task.questions) :
                 \E o \in CorrectOptions(task.questions[k]) :
                   /\ Answered(task.questions[k], storedAnswers)
                   /\ Len(Head(Filter(storedAnswers,
                          LAMBDA a : a.questionId = ToStr(task.questions[k]._id)))
                            .selectedOptions) = 1
                   /\ SelectedFor(task.questions[k], storedAnswers) = {o}})

GradeFromSnapshot ==
  \A i \in Graded :
    /\ submissions[i].correctAnswers
         = SnapshotGrade(TaskDoc(submissions[i].task), submissions[i].answers)
    /\ submissions[i].correctAnswers
         = CorrectCount(TaskDoc(submissions[i].task).questions, submissions[i].answers)
    /\ submissions[i].percentageScore
         = PercentageScore(submissions[i].correctAnswers, submissions[i].totalQuestions)

\* C19: whatever edits the question pools have seen, the grade of a submission
\* is the one the task's snapshot and the submitted answers determine, and no
\* startQuiz, submitQuiz or checkTimeLimit call changes the snapshot.
C19_GradeFromSnapshotOnly ==
  [][/\ GradeFromSnapshot'
     /\ \A i \in 1..Len(tasks) : tasks'[i].questions = tasks[i].questions]_vars

\* the pools were edited, then a submission was graded with a positive score
C19_Witness ==
  /\ resp.op = "submitQuiz" /\ resp.kind = "Graded"
  /\ \A i \in 1..Len(pools) :
       pools[i].category = "cA1" =>
         \A k \in 1..Len(pools[i].questions) :
           pools[i].questions[k] \notin Range(QuestionsA1)
  /\ \E i \in Graded : submissions[i].correctAnswers > 0

\* the session the time check looks at: the caller's first entry
AutoSubmitDue(u, t) ==
  /\ TaskDoc(t).status = "in-progress"
  /\ SessionsOf(TaskDoc(t), u) # <<>>
  /\ Head(SessionsOf(TaskDoc(t), u)).startedAt # NULL
  /\ ~Head(SessionsOf(TaskDoc(t), u)).completed
  /\ now - Head(SessionsOf(TaskDoc(t), u)).startedAt > TaskDoc(t).timeLimit

\* C20: checkTimeLimit changes no state and reports shouldAutoSubmit, with no
\* time remaining, exactly when the task is in progress, the caller's session is
\* started and not completed and the elapsed time is strictly greater than the
\* time limit; a task past its deadline stays in progress with its submission
\* unlocked until a submitQuiz.
C20_TimeCheckReadOnly ==
  [][/\ (resp'.op = "checkTimeLimit" /\ now' = now) =>
          LET r == checkQuizTimeLimit(DB, resp'.user, resp'.arg, now)
          IN /\ Store' = Store
             /\ r.shouldAutoSubmit = AutoSubmitDue(resp'.user, resp'.arg)
             /\ (resp'.kind = "AutoSubmit") = r.shouldAutoSubmit
             /\ r.shouldAutoSubmit => r.timeRemaining = 0
     /\ \A t \in TaskIds :
          (AutoSubmitDue("u1", t) /\ ~(resp'.op = "submitQuiz" /\ now' = now)) =>
            /\ Doc(tasks', t).status = "in-progress"
            /\ \A i \in 1..Len(submissions) :
                 (submissions[i].task = t /\ ~submissions[i].isLocked)
                   => ~submissions'[i].isLocked]_vars

\* the time check has asked for an automatic submission and the attempt is
\* still open
C20_Witness ==
  /\ resp.op = "checkTimeLimit" /\ resp.kind = "AutoSubmit"
  /\ TaskDoc(resp.arg).status = "in-progress"
  /\ Unlocked(resp.arg, resp.user) # {}

(***************************************************************************)
(* Generation specification: lessons are completed while an administrator  *)
(* edits the categories' question-pool references                          *)
(***************************************************************************)
\* updateCategory: Category.findByIdAndUpdate(categoryId, updates), for a request
\* body that carries the questionpool field
updateCategory(db, categoryId, updates) ==
  IF ~Exists(db.categories, categoryId)
    THEN [status |-> 404, kind |-> "CategoryNotFound", db |-> db]
    ELSE [status |-> 200, kind |-> "OK",
          db |-> [db EXCEPT !.categories =
                    UpdateById(@, categoryId,
                       LAMBDA c : [c EXCEPT !.questionpool = updates.questionpool])]]

\* the pools created for a category, in creation order
PoolsOf(c) ==
  MapField(Filter(pools, LAMBDA p : p.category = c), LAMBDA p : p.id)

\* request bodies of updateCategory: the reference list emptied or restored
CategoryUpdates(c) == {[questionpool |-> <<>>], [questionpool |-> PoolsOf(c)]}

\* PUT /categories/:id (admin)
UpdateCategory(categoryId) ==
  \E updates \in CategoryUpdates(categoryId) :
    LET r == updateCategory(DB, categoryId, updates)
    IN /\ Install(r.db)
       /\ resp' = [op |-> "updateCategory", user |-> "admin", arg |-> categoryId,
                   status |-> r.status, kind |-> r.kind]
       /\ UNCHANGED <<now, procs>>

GenNext ==
  \/ \E u \in UserIds, l \in LessonIds \cup {NoLesson} : CompleteLesson(u, l)
  \/ \E c \in CategoryIds : UpdateCategory(c)

SpecGen == Init /\ [][GenNext]_vars

(***************************************************************************)
(* Properties of the task generator (SpecGen)                              *)
(***************************************************************************)
ActivePools(c) == Filter(pools, LAMBDA p : p.category = c /\ p.isActive)

\* N = category.quizQuestionCount, 10 by default
QuestionCountOf(c) ==
  IF Doc(categories, c).quizQuestionCount = 0
    THEN DefaultQuizQuestionCount
    ELSE Doc(categories, c).quizQuestionCount

\* the streams of draws tried against category c
GenStreams(c) ==
  IF Len(AggregateQuestions(ActivePools(c))) = 0 THEN {<<>>}
  ELSE [1..MaxDraws -> 0..(Len(AggregateQuestions(ActivePools(c))) - 1)]

\* C23: task generation fails with NoActivePool exactly when the category has
\* no active pool, with InsufficientQuestions exactly when it has one and the
\* multiple-choice questions of its active pools are fewer than N, and has no
\* other failure as long as storage works.
C23_GenerationOutcomes ==
  \A u \in UserIds, c \in CategoryIds :
    \A rand \in GenStreams(c) :
      LET g == generateTaskFromQuestionPool(DB, u, c, rand, "none")
          candidates == Len(AggregateQuestions(ActivePools(c)))
      IN /\ (g.message = "NoActivePool") = (ActivePools(c) = <<>>)
         /\ (g.message = "InsufficientQuestions")
              = (ActivePools(c) # <<>> /\ candidates < QuestionCountOf(c))
         /\ (ActivePools(c) # <<>> /\ candidates >= QuestionCountOf(c))
              => g.message \in {"OK", "StillDrawing"}

(***************************************************************************)
(* Concurrent completion: every markLessonAsCompleted call runs in its own *)
(* transaction, which reads a snapshot of the store and whose writes fail  *)
(* when a document it writes was changed after the snapshot was taken      *)
(***************************************************************************)
\* a store that never reports a write conflict
WriteConflictNever(db, snap, staged) == FALSE

\* a document the transaction wrote was changed by a transaction that
\* committed after the snapshot was taken
WriteConflict(db, snap, staged) ==
  \/ \E i \in 1..Len(snap.users) :
       staged.users[i] # snap.users[i] /\ db.users[i] # snap.users[i]
  \/ \E i \in 1..Len(snap.lessons) :
       staged.lessons[i] # snap.lessons[i] /\ db.lessons[i] # snap.lessons[i]
  \/ \E i \in 1..Len(snap.categories) :
       staged.categories[i] # snap.categories[i]
         /\ db.categories[i] # snap.categories[i]
  \/ \E i \in 1..Len(snap.pools) :
       staged.pools[i] # snap.pools[i] /\ db.pools[i] # snap.pools[i]

\* the writes of a transaction ($addToSet updates and the insert of the new
\* task) applied to the documents as they are stored now
ReplayWrites(db, snap, staged) ==
  LET taskId == Len(db.tasks) + 1
      newTasks == SubSeq(staged.tasks, Len(snap.tasks) + 1, Len(staged.tasks))
      taskRef(before, after) == IF after # before THEN {taskId} ELSE {}
  IN [users |->
        [i \in 1..Len(db.users) |->
           [db.users[i] EXCEPT
              !.completedlesson =
                 @ \cup (staged.users[i].completedlesson \ snap.users[i].completedlesson),
              !.task = @ \cup taskRef(snap.users[i].task, staged.users[i].task)]],
      lessons |->
        [i \in 1..Len(db.lessons) |->
           [db.lessons[i] EXCEPT
              !.completedby =
                 @ \cup (staged.lessons[i].completedby \ snap.lessons[i].completedby)]],
      categories |->
        [i \in 1..Len(db.categories) |->
           [db.categories[i] EXCEPT
              !.task = @ \cup taskRef(snap.categories[i].task, staged.categories[i].task)]],
      pools |->
        [i \in 1..Len(db.pools) |->
           [db.pools[i] EXCEPT
              !.tasks = @ \cup taskRef(snap.pools[i].tasks, staged.pools[i].tasks)]],
      tasks |-> db.tasks \o MapField(newTasks, LAMBDA t : [t EXCEPT !.id = taskId]),
      submissions |-> db.submissions]

\* the first read of the transaction fixes its snapshot; a call that is
\* rejected by its validations or prerequisite checks writes nothing and is
\* answered from the snapshot
CompleteLessonBegin(p, userId, lessonId) ==
  /\ procs[p].pc = "idle"
  /\ LET v == markLessonAsCompleted(DB, userId, lessonId, <<>>, "none")
     IN IF v.db = DB /\ v.kind # "StillDrawing" /\ v.status # 200
          THEN /\ resp' = [op |-> "completeLesson", user |-> userId, arg |-> lessonId,
                           status |-> v.status, kind |-> v.kind,
                           taskGenerated |-> FALSE]
               /\ UNCHANGED procs
          ELSE /\ procs' = [procs EXCEPT ![p] =
                    [pc |-> "completeTxn", user |-> userId, lesson |-> lessonId,
                     snapshot |-> DB]]
               /\ UNCHANGED resp
  /\ UNCHANGED <<users, lessons, categories, pools, tasks, submissions, now>>

\* the draws and storage faults the transaction of p may meet
TxnStreams(p) ==
  LET snap == procs[p].snapshot
      started == markLessonAsCompleted(snap, procs[p].user, procs[p].lesson, <<>>, "none")
      candidates ==
        AggregateQuestions(
          Filter(snap.pools,
                 LAMBDA pl : pl.category = Doc(snap.lessons, procs[p].lesson).category
                             /\ pl.isActive))
  IN IF started.kind = "StillDrawing"
       THEN [1..MaxDraws -> 0..(Len(candidates) - 1)] \X FaultPoints
       ELSE {<<(<<>>), "none">>}

\* the writes and the end of the transaction
CompleteLessonCommit(p) ==
  /\ procs[p].pc = "completeTxn"
  /\ \E s \in TxnStreams(p) :
       LET snap == procs[p].snapshot
           r == markLessonAsCompleted(snap, procs[p].user, procs[p].lesson, s[1], s[2])
       IN /\ r.kind # "StillDrawing"
          /\ IF r.db # snap /\ WriteConflict(DB, snap, r.db)
               THEN /\ UNCHANGED <<users, lessons, categories, pools, tasks, submissions>>
                    /\ resp' = [op |-> "completeLesson", user |-> procs[p].user,
                                arg |-> procs[p].lesson, status |-> 500,
                                kind |-> "WriteConflict", taskGenerated |-> FALSE]
               ELSE /\ Install(ReplayWrites(DB, snap, r.db))
                    /\ resp' = [op |-> "completeLesson", user |-> procs[p].user,
                                arg |-> procs[p].lesson, status |-> r.status,
                                kind |-> r.kind, taskGenerated |-> r.taskGenerated]
  /\ procs' = [procs EXCEPT ![p] = Idle]
  /\ UNCHANGED now

TxnNext ==
  \/ \E p \in Procs, u \in UserIds, l \in LessonIds \cup {NoLesson} :
       CompleteLessonBegin(p, u, l)
  \/ \E p \in Procs : CompleteLessonCommit(p)

SpecTxn == Init /\ [][TxnNext]_vars

(***************************************************************************)
(* Properties of concurrent completion (SpecTxn)                           *)
(***************************************************************************)
\* C26: with a fixed catalog and under any interleaving of completeLesson
\* calls, at most one task is ever created for a (user, category) pair.
C26_OneTaskPerUserCategory ==
  \A u \in UserIds, c \in CategoryIds : Len(TasksOf(tasks, u, c)) <= 1

\* of two concurrent completions of the last lesson of a category, one created
\* the task and the other has failed
C26_Witness ==
  /\ resp.op = "completeLesson" /\ resp.kind = "WriteConflict"
  /\ resp.arg \in UserDoc(resp.user).completedlesson
  /\ Len(TasksOf(tasks, resp.user, LessonDoc(resp.arg).category)) = 1

(***************************************************************************)
(* Progress specification: the fixed catalog whose categories all have     *)
(* enough questions, and a user who keeps completing a lesson that can be  *)
(* completed                                                               *)
(***************************************************************************)
\* the lessons of the roadmaps u is enrolled in that u has not completed
OpenLessons(u) ==
  {l \in LessonIds : /\ LessonDoc(l).roadmap \in UserDoc(u).roadmap
                     /\ l \notin UserDoc(u).completedlesson}

\* a stream of draws that walks through the candidates one after the other
WalkingStream(u, l) ==
  IF CandidateCount(l) > 0
    THEN [i \in 1..MaxDraws |-> (i - 1) % CandidateCount(l)]
    ELSE <<>>

\* the user completes an open lesson that can be completed; storage works and
\* the selection loop draws every candidate in turn
KeepCompleting(u) ==
  \E l \in OpenLessons(u) :
    \E rand \in {WalkingStream(u, l)} :
    \E r \in {markLessonAsCompleted(DB, u, l, rand, "none")} :
       /\ r.status = 200
       /\ Install(r.db)
       /\ resp' = [op |-> "completeLesson", user |-> u, arg |-> l,
                   status |-> r.status, kind |-> r.kind,
                   taskGenerated |-> r.taskGenerated]
       /\ UNCHANGED <<now, procs>>

LiveNext ==
  \/ \E u \in UserIds, l \in LessonIds \cup {NoLesson} : CompleteLesson(u, l)
  \/ \E u \in UserIds, l \in LessonIds \cup {NoLesson} : CheckLessonAvailability(u, l)

SpecLive == SeqInit /\ [][LiveNext]_vars /\ WF_vars(KeepCompleting("u1"))

\* some open lesson of u can be completed when storage works
CanProgress(u) ==
  \E l \in OpenLessons(u) :
    \E rand \in RandStreams(u, l) :
      markLessonAsCompleted(DB, u, l, rand, "none").status = 200

\* C29: gating never deadlocks: while an enrolled user has lessons of the
\* roadmap left, completeLesson succeeds on at least one of them, and a user
\* who keeps completing such lessons eventually has completed the whole
\* roadmap.
C29_GatingNeverDeadlocks ==
  /\ [](\A u \in UserIds : OpenLessons(u) # {} => CanProgress(u))
  /\ <>[](OpenLessons("u1") = {})

\* the enrolled user has completed the whole roadmap
C29_Witness ==
  /\ resp.op = "completeLesson" /\ resp.status = 200 /\ resp.user = "u1"
  /\ OpenLessons("u1") = {}
  /\ UserDoc("u1").completedlesson = LessonIds

(***************************************************************************)
(* Blocking specification: the first category of the first stage has no    *)
(* active pool, or one multiple-choice question where its quizQuestionCount *)
(* asks for two.  It starts with one lesson or, as createCategory leaves    *)
(* it, with none; the admin may add lessons.  Pools never change.          *)
(***************************************************************************)
BlockKinds == {"nopool", "few"}

\* the categories of the initial lessons, in creation order
BlockLessonLayouts == { <<"cA1", "cA2", "cB1">>, <<"cA2", "cB1">> }

BlockPools(kind) ==
  (IF kind = "nopool" THEN <<>> ELSE << <<"cA1", SubSeq(QuestionsA1, 1, 2)>> >>)
  \o << <<"cA2", QuestionsA2>>, <<"cB1", QuestionsB1>> >>

BlockInitDB(kind, layout) ==
  WithPools(WithLessons(EmptyDB("enough"), layout), BlockPools(kind))

BlockInit ==
  \E kind \in BlockKinds, layout \in BlockLessonLayouts :
    /\ users = BlockInitDB(kind, layout).users
    /\ lessons = BlockInitDB(kind, layout).lessons
    /\ categories = BlockInitDB(kind, layout).categories
    /\ pools = BlockInitDB(kind, layout).pools
    /\ tasks = BlockInitDB(kind, layout).tasks
    /\ submissions = BlockInitDB(kind, layout).submissions
    /\ now = 0
    /\ procs = [p \in Procs |-> Idle]
    /\ resp = [op |-> "none", status |-> 0]

BlockNext ==
  \/ \E u \in UserIds, l \in LessonIds \cup {NoLesson} : CompleteLesson(u, l)
  \/ \E c \in CategoryIds : CreateLesson(c)

SpecBlock == BlockInit /\ [][BlockNext]_vars

\* category c has no active pool, or its active pools hold fewer
\* multiple-choice questions than c.quizQuestionCount
Deficient(c) ==
  \/ Len(ActivePools(c)) = 0
  \/ Len(AggregateQuestions(ActivePools(c))) < Doc(categories, c).quizQuestionCount

LessonsOf(c) == {l \in LessonIds : LessonDoc(l).category = c}

\* the lessons of the categories and stages the gating order puts after c
LaterLessons(c) ==
  {l \in LessonIds :
     /\ LessonDoc(l).roadmap = Doc(categories, c).roadmap
     /\ \/ StageOrder(LessonDoc(l).stage) > StageOrder(Doc(categories, c).stage)
        \/ /\ LessonDoc(l).stage = Doc(categories, c).stage
           /\ CategoryPosition(LessonDoc(l).category) > CategoryPosition(c)}

\* in this step no user comes to hold all lessons of c, and no user's
\* completed set gains a lesson of a later category or stage
BlockedStep(c) ==
  \A u \in UserIds :
    /\ (LessonsOf(c)' \subseteq UserDoc(u).completedlesson')
         => (LessonsOf(c) \subseteq UserDoc(u).completedlesson)
    /\ \A l \in LaterLessons(c)' :
         l \in UserDoc(u).completedlesson' => l \in UserDoc(u).completedlesson

====
